---- MODULE Spec2Model ----
(***************************************************************************)
(* opal-bot: the Facebook Messenger adapter (multibot/fbbot.ts) with its   *)
(* Spool, and the orchestrator (lib/opalbot.ts) with its named-future      *)
(* registry (webSessions) and the settings web route.                      *)
(*                                                                         *)
(* Spec        the adapter: message listener, conversations, recv()        *)
(* SpecWeb     the orchestrator: interact, gatherSettings, settingsRoute   *)
(* SpecReg     the named-future registry driven directly through get, put  *)
(* SpecWit     interact under every result of wit.message                  *)
(* SpecFail    the orchestrator with collaborator calls that fail          *)
(* SpecRouter  the path router: Route, match, dispatch                     *)
(* SpecIso     the registry hand-off and the adapter in one process        *)
(***************************************************************************)
EXTENDS Naturals, Sequences, FiniteSets

\* ---------------------------------------------------------------- bounds
MaxEvents == 3
MaxConvs == 2
MaxWebConvs == 2
MaxRequests == 2
MaxGets == 2
MaxPuts == 2
MaxRoutes == 2

Users == {"u1", "u2"}
\* The users whose conversations reach the orchestrator.
WebUsers == {"u1"}
Texts == {"hi", "bye"}

\* ------------------------------------------------------- adapter: values
NULL == "null"

\* A ConversationHandler: the orchestrator's closure around interact, which
\* never calls conv.recv(), or some other handler that holds a dialogue
\* through conv.recv().
Handlers == {"interact", "dialogue"}

\* interface Message { mid; seq; text }
Message(n, t) == [mid |-> n, seq |-> n, text |-> t]
NoMessage == [mid |-> 0, seq |-> 0, text |-> ""]

VARIABLES
  convHandler,   \* FacebookBot.convHandler
  onconverse,    \* the property OpalBot.register assigns on the bot
  waiters,       \* FacebookBot.spool: the registered waiters
  convs,         \* every Conversation constructed so far, in order
  evlog,         \* history: the 'message' events the listener has handled
  officeClient,  \* OpalBot.officeClient
  webSessions,   \* OpalBot.webSessions: the named-future registry
  users,         \* OpalBot.users: per user, <<>> or <<the stored settings>>
  wconvs,        \* the conversations handed to OpalBot.interact, in order
  requests,      \* the settings-route handlers that have not finished
  response,      \* the last response ended by the settings route
  nreq,          \* the number of requests the settings route has taken
  putlog,        \* history: the put calls on the registry
  getlog,        \* history: the get calls on the registry and their results
  routes,        \* the Route list handed to dispatch (webRoutes)
  call,          \* history: the last request dispatch has served
  process        \* the Node process: "running" or "exited"

adapterVars == <<convHandler, onconverse, waiters, convs, evlog>>
webVars == <<officeClient, webSessions, users, wconvs, requests, response,
             nreq, putlog, getlog>>
routerVars == <<routes, call>>
vars == <<adapterVars, webVars, routerVars, process>>

ConvIds == DOMAIN convs

\* ------------------------------------------------------------------ Spool
\* The waiters registered for a key.
Spool_waiting(w, k) == {x \in w : x.key = k}

\* dispatch(key, value): hands the value to the waiter of the key, which is
\* removed, and reports handled; with no waiter it reports unhandled and
\* keeps nothing.
Spool_dispatch(w, k) ==
  [handled |-> Spool_waiting(w, k) # {},
   waiters |-> w \ Spool_waiting(w, k),
   resumed |-> {x.conv : x \in Spool_waiting(w, k)}]

\* A wait that adds its waiter beside the one the key already has.
Spool_wait_both(w, k, c) ==
  {w \cup {[key |-> k, conv |-> c]}}

\* wait(key): registers the caller as the waiter of the key.  A second wait
\* on a key that has a waiter is undefined: the new waiter takes the entry,
\* or the old one keeps it.  The result is the set of possible registries.
Spool_wait(w, k, c) ==
  IF Spool_waiting(w, k) = {}
  THEN {w \cup {[key |-> k, conv |-> c]}}
  ELSE {(w \ Spool_waiting(w, k)) \cup {[key |-> k, conv |-> c]}, w}

\* ----------------------------------------------------------- Conversation
\* new Conversation(fb, user), handed to the handler with the message text.
\* pc: "active" the handler runs or awaits something other than the Spool,
\*     "recv" it is suspended in recv(), "done" the handler has returned.
\* got/ret: what the last wait resumed with and what recv() returned.
\* History: since (length of evlog when recv() was last called), rets (one
\* entry per completed recv(): since, the event that completed it, the text
\* returned), doneAt (length of evlog when the handler returned).
Conversation(user, text, handler) ==
  [user |-> user, handler |-> handler, text |-> text, pc |-> "active",
   got |-> NoMessage, ret |-> "", since |-> 0, rets |-> <<>>, doneAt |-> 0]

\* A recv() that returns a property the message does not have.
recv_resume_undefined(conv, msg) ==
  [conv EXCEPT !.pc = "active", !.got = msg, !.ret = "",
               !.rets = Append(@, [at |-> Len(evlog) + 1, since |-> conv.since,
                                   text |-> ""])]

\* recv(), second half: the wait resumes with msg and recv returns msg.text.
recv_resume(conv, msg) ==
  [conv EXCEPT !.pc = "active", !.got = msg, !.ret = msg.text,
               !.rets = Append(@, [at |-> Len(evlog) + 1, since |-> conv.since,
                                   text |-> msg.text])]

\* The response before a handler has touched it, and call before dispatch
\* has served a request.
NoResponse == [statusCode |-> 200, body |-> ""]
NoCall ==
  [req |-> [method |-> <<>>, url |-> <<>>], notFound |-> "", nroutes |-> 0,
   invoked |-> <<>>, res |-> NoResponse]

Init ==
  /\ convHandler = NULL
  /\ onconverse = NULL
  /\ waiters = {}
  /\ convs = <<>>
  /\ evlog = <<>>
  /\ officeClient = NULL
  /\ webSessions = [consumers |-> {}, values |-> {}, consumed |-> {}]
  /\ users = [u \in Users |-> <<>>]
  /\ wconvs = <<>>
  /\ requests = <<>>
  /\ response = [method |-> "", token |-> 0, status |-> 0, body |-> ""]
  /\ nreq = 0
  /\ putlog = <<>>
  /\ getlog = <<>>
  /\ routes = <<>>
  /\ call = NoCall
  /\ process = "running"

\* OpalBot.register(bot): bot.onconverse = async (text, conv) => interact.
register ==
  /\ onconverse' = "interact"
  /\ UNCHANGED <<convHandler, waiters, convs, evlog, webVars, routerVars, process>>

\* FacebookBot.onConverse(cbk)
onConverse(cbk) ==
  /\ convHandler' = cbk
  /\ UNCHANGED <<onconverse, waiters, convs, evlog, webVars, routerVars, process>>

\* The entry evlog keeps of one run of the listener.
Event(u, msg, d, spawned) ==
  [sender |-> u, message |-> msg, handled |-> d.handled,
   resumed |-> d.resumed, conv |-> IF spawned THEN Len(convs) + 1 ELSE 0]

\* A listener that dispatches on the recipient of the event (the page), not
\* on its sender.
OnMessage_recipient(u, t) ==
  LET msg == Message(Len(evlog) + 1, t)
      d == Spool_dispatch(waiters, "page")
      spawn == ~d.handled /\ convHandler # NULL
  IN
  /\ Len(evlog) < MaxEvents
  /\ spawn => Len(convs) < MaxConvs
  /\ waiters' = d.waiters
  /\ convs' = IF spawn
              THEN Append(convs, Conversation(u, msg.text, convHandler))
              ELSE convs
  /\ evlog' = Append(evlog, Event(u, msg, d, spawn))
  /\ UNCHANGED <<convHandler, onconverse, webVars, routerVars, process>>

\* A listener that registers the new conversation as the waiter of its key
\* before the handler runs.
OnMessage_prewait(u, t) ==
  LET msg == Message(Len(evlog) + 1, t)
      d == Spool_dispatch(waiters, u)
      spawn == ~d.handled /\ convHandler # NULL
  IN
  /\ Len(evlog) < MaxEvents
  /\ spawn => Len(convs) < MaxConvs
  /\ waiters' = IF spawn
                THEN d.waiters \cup {[key |-> u, conv |-> Len(convs) + 1]}
                ELSE d.waiters
  /\ convs' = IF d.handled
              THEN [c \in DOMAIN convs |->
                      IF c \in d.resumed THEN recv_resume(convs[c], msg)
                                         ELSE convs[c]]
              ELSE IF spawn
                   THEN Append(convs, [Conversation(u, msg.text, convHandler)
                                         EXCEPT !.pc = "recv"])
                   ELSE convs
  /\ evlog' = Append(evlog, Event(u, msg, d, spawn))
  /\ UNCHANGED <<convHandler, onconverse, webVars, routerVars, process>>

\* A listener that does not test handled before it starts a conversation.
OnMessage_unchecked(u, t) ==
  LET msg == Message(Len(evlog) + 1, t)
      d == Spool_dispatch(waiters, u)
      spawn == convHandler # NULL
      resumed == [c \in DOMAIN convs |->
                    IF c \in d.resumed THEN recv_resume(convs[c], msg)
                                       ELSE convs[c]]
  IN
  /\ Len(evlog) < MaxEvents
  /\ spawn => Len(convs) < MaxConvs
  /\ waiters' = d.waiters
  /\ convs' = IF spawn
              THEN Append(resumed, Conversation(u, msg.text, convHandler))
              ELSE resumed
  /\ evlog' = Append(evlog, Event(u, msg, d, spawn))
  /\ UNCHANGED <<convHandler, onconverse, webVars, routerVars, process>>

\* A listener that hands the message to every waiter of the Spool, whatever
\* its key.
OnMessage_broadcast(u, t) ==
  LET msg == Message(Len(evlog) + 1, t)
      d == [handled |-> waiters # {}, waiters |-> {},
            resumed |-> {x.conv : x \in waiters}]
      spawn == ~d.handled /\ convHandler # NULL
  IN
  /\ Len(evlog) < MaxEvents
  /\ spawn => Len(convs) < MaxConvs
  /\ waiters' = d.waiters
  /\ convs' = IF d.handled
              THEN [c \in DOMAIN convs |->
                      IF c \in d.resumed THEN recv_resume(convs[c], msg)
                                         ELSE convs[c]]
              ELSE IF spawn
                   THEN Append(convs, Conversation(u, msg.text, convHandler))
                   ELSE convs
  /\ evlog' = Append(evlog, Event(u, msg, d, spawn))
  /\ UNCHANGED <<convHandler, onconverse, webVars, routerVars, process>>

\* A listener that starts no conversation for a sender whose handler is
\* running.
OnMessage_once(u, t) ==
  LET msg == Message(Len(evlog) + 1, t)
      d == Spool_dispatch(waiters, u)
      spawn == /\ ~d.handled
               /\ convHandler # NULL
               /\ ~\E c \in ConvIds : convs[c].user = u /\ convs[c].pc = "active"
  IN
  /\ Len(evlog) < MaxEvents
  /\ spawn => Len(convs) < MaxConvs
  /\ waiters' = d.waiters
  /\ convs' = IF d.handled
              THEN [c \in DOMAIN convs |->
                      IF c \in d.resumed THEN recv_resume(convs[c], msg)
                                         ELSE convs[c]]
              ELSE IF spawn
                   THEN Append(convs, Conversation(u, msg.text, convHandler))
                   ELSE convs
  /\ evlog' = Append(evlog, Event(u, msg, d, spawn))
  /\ UNCHANGED <<convHandler, onconverse, webVars, routerVars, process>>

\* The 'message' listener of the constructor, on an event from sender u
\* with text t: dispatch to the Spool and, when that reports unhandled and a
\* handler is set, construct a Conversation and call the handler.
OnMessage(u, t) ==
  LET msg == Message(Len(evlog) + 1, t)
      d == Spool_dispatch(waiters, u)
      spawn == ~d.handled /\ convHandler # NULL
  IN
  /\ Len(evlog) < MaxEvents
  /\ spawn => Len(convs) < MaxConvs
  /\ waiters' = d.waiters
  /\ convs' = IF d.handled
              THEN [c \in DOMAIN convs |->
                      IF c \in d.resumed THEN recv_resume(convs[c], msg)
                                         ELSE convs[c]]
              ELSE IF spawn
                   THEN Append(convs, Conversation(u, msg.text, convHandler))
                   ELSE convs
  /\ evlog' = Append(evlog, Event(u, msg, d, spawn))
  /\ UNCHANGED <<convHandler, onconverse, webVars, routerVars, process>>

\* Conversation.recv(), first half: the handler of conversation c calls
\* this.fb.spool.wait(this.user) and suspends.
recv(c) ==
  /\ convs[c].pc = "active"
  /\ convs[c].handler = "dialogue"
  /\ \E w \in Spool_wait(waiters, convs[c].user, c) : waiters' = w
  /\ convs' = [convs EXCEPT ![c].pc = "recv", ![c].since = Len(evlog)]
  /\ UNCHANGED <<convHandler, onconverse, evlog, webVars, routerVars, process>>

\* A handler that returns although its recv() is pending (a recv() that is
\* not awaited).
Return_unawaited(c) ==
  /\ convs[c].pc \in {"active", "recv"}
  /\ convs' = [convs EXCEPT ![c].pc = "done", ![c].doneAt = Len(evlog)]
  /\ UNCHANGED <<convHandler, onconverse, waiters, evlog, webVars, routerVars, process>>

\* The handler of conversation c returns.
Return(c) ==
  /\ convs[c].pc = "active"
  /\ convs' = [convs EXCEPT ![c].pc = "done", ![c].doneAt = Len(evlog)]
  /\ UNCHANGED <<convHandler, onconverse, waiters, evlog, webVars, routerVars, process>>

Next ==
  \/ register
  \/ \E cbk \in Handlers : onConverse(cbk)
  \/ \E u \in Users, t \in Texts : OnMessage(u, t)
  \/ \E c \in ConvIds : recv(c)
  \/ \E c \in ConvIds : Return(c)

Spec == Init /\ [][Next]_vars

\* ------------------------------------------------- named-future registry
\* webSessions = [consumers, values, consumed]: the suspended get calls
\* ([token, get]: get is the position of the call in getlog), the values put
\* and not yet claimed ([token, value, put]: put is the position of the
\* call in putlog), and the tokens whose slot has delivered a value.
IVars_consumers(reg, t) == {x \in reg.consumers : x.token = t}
IVars_values(reg, t) == {x \in reg.values : x.token = t}

\* has(token): the answers the existence check can give.  A slot with a
\* suspended consumer or an unclaimed value exists, a token never used does
\* not; a consumed slot may have been discarded.
IVars_has(reg, t) ==
  IF IVars_consumers(reg, t) # {} \/ IVars_values(reg, t) # {} THEN {TRUE}
  ELSE IF t \in reg.consumed THEN {TRUE, FALSE}
  ELSE {FALSE}

\* get(token) by the call numbered g: the possible outcomes [reg, got].
\* An unclaimed value resumes the call at once and the slot is consumed;
\* otherwise the call is registered as the consumer.  A get on a token that
\* has a consumer is undefined: either of the two holds the slot.
IVars_get(reg, t, g) ==
  IF IVars_values(reg, t) # {}
  THEN {[reg |-> [reg EXCEPT !.values = @ \ IVars_values(reg, t),
                             !.consumed = @ \cup {t}],
         got |-> {v}] : v \in IVars_values(reg, t)}
  ELSE IF IVars_consumers(reg, t) = {}
  THEN {[reg |-> [reg EXCEPT !.consumers = @ \cup {[token |-> t, get |-> g]}],
         got |-> {}]}
  ELSE {[reg |-> [reg EXCEPT !.consumers = (@ \ IVars_consumers(reg, t))
                                             \cup {[token |-> t, get |-> g]}],
         got |-> {}],
        [reg |-> reg, got |-> {}]}

\* A put that resumes the consumer and keeps the value in the slot as well.
IVars_put_keeps(reg, t, v, p) ==
  IF IVars_consumers(reg, t) # {}
  THEN {[reg |-> [reg EXCEPT !.consumers = @ \ IVars_consumers(reg, t),
                             !.values = @ \cup {[token |-> t, value |-> v,
                                                 put |-> p]},
                             !.consumed = @ \cup {t}],
         resumed |-> {x.get : x \in IVars_consumers(reg, t)}]}
  ELSE {[reg |-> [reg EXCEPT !.values = @ \cup {[token |-> t, value |-> v,
                                                 put |-> p]}],
         resumed |-> {}]}

\* A put that stores the value although a consumer is suspended.
IVars_put_stores(reg, t, v, p) ==
  {[reg |-> [reg EXCEPT !.values = (@ \ IVars_values(reg, t))
                                     \cup {[token |-> t, value |-> v,
                                            put |-> p]}],
    resumed |-> {}]}

\* put(token, value) by the call numbered p: the possible outcomes
\* [reg, resumed].  A suspended consumer is resumed with the value and the
\* slot is consumed; otherwise the value is stored for a later get.  A put
\* on a slot that holds a value, or that is consumed, is undefined: the
\* value replaces the stored one or is dropped.
IVars_put(reg, t, v, p) ==
  IF IVars_consumers(reg, t) # {}
  THEN {[reg |-> [reg EXCEPT !.consumers = @ \ IVars_consumers(reg, t),
                             !.consumed = @ \cup {t}],
         resumed |-> {x.get : x \in IVars_consumers(reg, t)}]}
  ELSE IF IVars_values(reg, t) # {} \/ t \in reg.consumed
  THEN {[reg |-> [reg EXCEPT !.values = (@ \ IVars_values(reg, t))
                                         \cup {[token |-> t, value |-> v,
                                                put |-> p]}],
         resumed |-> {}],
        [reg |-> reg, resumed |-> {}]}
  ELSE {[reg |-> [reg EXCEPT !.values = @ \cup {[token |-> t, value |-> v,
                                                 put |-> p]}],
         resumed |-> {}]}

\* The entries getlog and putlog keep of a call.  A get entry holds the
\* value the call resumed with and the put it came from (put = 0 while the
\* call is suspended), and whether the call had to suspend.  A put entry
\* holds the site of the call and, for the CalDAV POST, the form submitted.
NoCaldav == [url |-> "", username |-> "", password |-> ""]
EmptySettings == [service |-> NULL, caldav |-> NoCaldav, officeToken |-> NULL]
GetEntry(t, c) ==
  [token |-> t, conv |-> c, suspended |-> TRUE, value |-> EmptySettings,
   put |-> 0]
NoForm == [service |-> "", url |-> "", username |-> "", password |-> ""]
PutEntry(t, v, site, form) ==
  [token |-> t, value |-> v, site |-> site, form |-> form,
   after |-> IF response.token = t THEN response.body ELSE ""]

\* getlog once the calls in gs have resumed with value v of put p.
Resumed(log, gs, v, p) ==
  [g \in DOMAIN log |->
     IF g \in gs THEN [log[g] EXCEPT !.value = v, !.put = p] ELSE log[g]]

\* ------------------------------------------------------ the orchestrator
\* interface Settings (EmptySettings is {}; an absent key is NULL, an absent
\* caldav NoCaldav).
\* Settings that take the username for the password and the password for
\* the username.
CaldavSettings_swapped(data) ==
  [service |-> "caldav",
   caldav |-> [url |-> data.url, username |-> data.password,
               password |-> data.username],
   officeToken |-> NULL]

\* The settings the POST branch builds from the form.
CaldavSettings(data) ==
  [service |-> "caldav",
   caldav |-> [url |-> data.url, username |-> data.username,
               password |-> data.password],
   officeToken |-> NULL]
OfficeSettings(t) ==
  [service |-> "office", caldav |-> NoCaldav, officeToken |-> t]

\* What a POST of the settings form can carry, and the tokens the Office
\* sign-in can yield.
Forms ==
  [service : {"caldav", "office"}, url : {"http://cal"},
   username : {"alice"}, password : {"pw"}]
OfficeTokens == {"tok"}
SettingsValues ==
  {CaldavSettings(d) : d \in Forms} \cup {OfficeSettings(t) : t \in OfficeTokens}

\* The result of wit.message: the entities interact looks at.
Intents == {"show_calendar", "schedule_meeting", "setup_calendar", "help",
            "weather"}
WitResults ==
  [greetings : BOOLEAN, bye : BOOLEAN, thanks : BOOLEAN,
   intent : Intents \cup {NULL}]
\* The results the conversations of SpecWeb draw from: a greeting, and the
\* intents that reach getCalendar or none.
WebWitResults ==
  {res \in WitResults :
     /\ ~res.bye /\ ~res.thanks
     /\ res.intent \in {"show_calendar", "setup_calendar", NULL}
     /\ res.greetings => res.intent = NULL}
wit_getEntity(res, name) == res[name]
wit_entityValue(res, name) == res[name]

\* A selection that looks at the intent before the entities.
SelectHandler_intentFirst(res) ==
  LET intent == wit_entityValue(res, "intent") IN
  IF intent = "show_calendar" THEN "show_calendar"
  ELSE IF intent = "schedule_meeting" THEN "schedule_meeting"
  ELSE IF intent = "setup_calendar" THEN "setup_calendar"
  ELSE IF intent = "help" THEN "help"
  ELSE IF wit_getEntity(res, "greetings") THEN "greeting"
  ELSE IF wit_getEntity(res, "bye") THEN "bye"
  ELSE IF wit_getEntity(res, "thanks") THEN "thanks"
  ELSE "default"

\* interact: the handler the entities select.
SelectHandler(res) ==
  IF wit_getEntity(res, "greetings") THEN "greeting"
  ELSE IF wit_getEntity(res, "bye") THEN "bye"
  ELSE IF wit_getEntity(res, "thanks") THEN "thanks"
  ELSE LET intent == wit_entityValue(res, "intent") IN
       IF intent = "show_calendar" THEN "show_calendar"
       ELSE IF intent = "schedule_meeting" THEN "schedule_meeting"
       ELSE IF intent = "setup_calendar" THEN "setup_calendar"
       ELSE IF intent = "help" THEN "help"
       ELSE "default"

\* The fixed reply of the handlers that only send.
Reply(h) ==
  CASE h = "greeting" -> "hi!"
    [] h = "bye" -> ":wave: I'll be right here"
    [] h = "thanks" -> "nbd yo"
    [] h = "schedule_meeting" ->
         "let's get to schedulin'! [actually this is not quite implemented yet]"
    [] h = "help" -> "I can schedule a meeting or show your calendar"
    [] OTHER -> ":confused: :grey_question:"

\* getCalendar returning null.
NoCalendar ==
  [kind |-> NULL, url |-> "", username |-> "", password |-> "",
   token |-> NULL]

\* A conversation handed to interact.  pc: "wit" awaiting wit.message,
\* "settings" suspended in webSessions.get, "events" awaiting getSomeEvents,
\* "done" interact has returned.  out: what conv.send was called with.
\* The text of the first message goes to wit.message alone, whose result is
\* an input of witMessage and is kept in res (history).
NoResult ==
  [greetings |-> FALSE, bye |-> FALSE, thanks |-> FALSE, intent |-> NULL]
WebConversation(user) ==
  [user |-> user, pc |-> "wit", handler |-> NULL, res |-> NoResult,
   token |-> 0, calendar |-> NoCalendar, out |-> <<>>]

WebConvIds == DOMAIN wconvs
RequestIds == DOMAIN requests

\* randomString(): a token no call has returned before.
randomString == Cardinality({c \in WebConvIds : wconvs[c].token # 0}) + 1

\* getCalendar, from the service test to its return: the Calendar of the
\* configured service, or null.
CalendarOf(settings) ==
  IF settings.service = "caldav"
  THEN [kind |-> "caldav", url |-> settings.caldav.url,
        username |-> settings.caldav.username,
        password |-> settings.caldav.password, token |-> NULL]
  ELSE IF settings.service = "office"
  THEN [kind |-> "office", url |-> "", username |-> "", password |-> "",
        token |-> settings.officeToken]
  ELSE NoCalendar

\* The handler of conversation cv from the return of getCalendar with the
\* user's settings: handle_show_calendar goes on to getSomeEvents when there
\* is a calendar, handle_setup_calendar sends its reply.
AfterCalendar(cv, settings) ==
  IF cv.handler = "show_calendar"
  THEN IF CalendarOf(settings) # NoCalendar
       THEN [cv EXCEPT !.pc = "events", !.calendar = CalendarOf(settings)]
       ELSE [cv EXCEPT !.pc = "done"]
  ELSE [cv EXCEPT !.pc = "done", !.calendar = CalendarOf(settings),
                  !.out = Append(@, <<"ok, all set!">>)]

\* The conversations and the stored settings once the get calls in gs have
\* resumed with settings v: getCalendar stores them and goes on.
ResumeConvs(cs, gs, v) ==
  [c \in DOMAIN cs |->
     IF \E g \in gs : getlog[g].conv = c THEN AfterCalendar(cs[c], v)
     ELSE cs[c]]
ResumeUsers(us, gs, v) ==
  [u \in Users |->
     IF \E g \in gs : getlog[g].conv # 0 /\ wconvs[getlog[g].conv].user = u
     THEN <<v>> ELSE us[u]]

\* getUser: the stored settings, created empty for a new user.
getUser(u) == IF users[u] = <<>> THEN EmptySettings ELSE users[u][1]

\* OpalBot.addOffice
addOffice ==
  /\ officeClient = NULL
  /\ officeClient' = "client"
  /\ UNCHANGED <<adapterVars, routerVars, process, webSessions, users, wconvs, requests, response,
                 nreq, putlog, getlog>>

\* The hook register has set is called with a new conversation; interact
\* awaits wit.message.
interact(u, text) ==
  /\ onconverse = "interact"
  /\ Len(wconvs) < MaxWebConvs
  /\ wconvs' = Append(wconvs, WebConversation(u))
  /\ UNCHANGED <<adapterVars, routerVars, process, officeClient, webSessions, users, requests,
                 response, nreq, putlog, getlog>>

\* A gatherSettings that takes its token from a fixed string.
gatherSettings_fixed(c, cv) ==
  LET token == 1 IN
  \E o \in IVars_get(webSessions, token, Len(getlog) + 1) :
    LET sent == [cv EXCEPT !.pc = "settings", !.token = token,
                           !.out = Append(@, <<"please fill out the form at",
                                               token>>)]
        entry == GetEntry(token, c)
    IN
    /\ webSessions' = o.reg
    /\ IF o.got = {}
       THEN /\ getlog' = Append(getlog, entry)
            /\ wconvs' = [wconvs EXCEPT ![c] = sent]
            /\ users' = [users EXCEPT ![cv.user] = <<getUser(cv.user)>>]
       ELSE \E x \in o.got :
            /\ getlog' = Append(getlog, [entry EXCEPT !.value = x.value,
                                                      !.put = x.put,
                                                      !.suspended = FALSE])
            /\ wconvs' = [wconvs EXCEPT ![c] = AfterCalendar(sent, x.value)]
            /\ users' = [users EXCEPT ![cv.user] = <<x.value>>]

\* A gatherSettings that sends the URL and suspends without calling get.
gatherSettings_sendonly(c, cv) ==
  LET token == randomString IN
  /\ wconvs' = [wconvs EXCEPT ![c] =
                  [cv EXCEPT !.pc = "settings", !.token = token,
                             !.out = Append(@, <<"please fill out the form at",
                                                 token>>)]]
  /\ users' = [users EXCEPT ![cv.user] = <<getUser(cv.user)>>]
  /\ UNCHANGED <<webSessions, getlog>>

\* gatherSettings(conv) for conversation c, whose handler has run to cv:
\* mint a token, send the URL, call webSessions.get(token); and, when the
\* get resumes at once, the rest of getCalendar.
gatherSettings(c, cv) ==
  LET token == randomString IN
  \E o \in IVars_get(webSessions, token, Len(getlog) + 1) :
    LET sent == [cv EXCEPT !.pc = "settings", !.token = token,
                           !.out = Append(@, <<"please fill out the form at",
                                               token>>)]
        entry == GetEntry(token, c)
    IN
    /\ webSessions' = o.reg
    /\ IF o.got = {}
       THEN /\ getlog' = Append(getlog, entry)
            /\ wconvs' = [wconvs EXCEPT ![c] = sent]
            /\ users' = [users EXCEPT ![cv.user] = <<getUser(cv.user)>>]
       ELSE \E x \in o.got :
            /\ getlog' = Append(getlog, [entry EXCEPT !.value = x.value,
                                                      !.put = x.put,
                                                      !.suspended = FALSE])
            /\ wconvs' = [wconvs EXCEPT ![c] = AfterCalendar(sent, x.value)]
            /\ users' = [users EXCEPT ![cv.user] = <<x.value>>]

\* A getCalendar that gathers the settings whatever is stored.
getCalendar_always(c, cv, force) ==
  gatherSettings(c, cv)

\* getCalendar(conv, force) up to its first await or its return.
getCalendar(c, cv, force) ==
  IF force \/ getUser(cv.user).service = NULL
  THEN gatherSettings(c, cv)
  ELSE /\ wconvs' = [wconvs EXCEPT ![c] = AfterCalendar(cv, getUser(cv.user))]
       /\ users' = [users EXCEPT ![cv.user] = <<getUser(cv.user)>>]
       /\ UNCHANGED <<webSessions, getlog>>

\* wit.message resolves with res: interact selects the handler, which runs
\* to its first await or to its return.
witMessage(c, res) ==
  LET h == SelectHandler(res)
      cv == [wconvs[c] EXCEPT !.handler = h, !.res = res]
  IN
  /\ wconvs[c].pc = "wit"
  /\ IF h = "show_calendar"
     THEN getCalendar(c, [cv EXCEPT !.out = Append(@, <<"let's get your calendar!">>)],
                      FALSE)
     ELSE IF h = "setup_calendar"
     THEN getCalendar(c, cv, TRUE)
     ELSE /\ wconvs' = [wconvs EXCEPT ![c] =
                          [cv EXCEPT !.pc = "done",
                                     !.out = Append(@, <<Reply(h)>>)]]
          /\ UNCHANGED <<webSessions, users, getlog>>
  /\ UNCHANGED <<adapterVars, routerVars, process, officeClient, requests, response, nreq, putlog>>

\* getSomeEvents resolves: handle_show_calendar sends the summary.
getSomeEvents(c) ==
  /\ wconvs[c].pc = "events"
  /\ wconvs' = [wconvs EXCEPT ![c].pc = "done",
                              ![c].out = Append(@, <<"events">>)]
  /\ UNCHANGED <<adapterVars, routerVars, process, officeClient, webSessions, users, requests,
                 response, nreq, putlog, getlog>>

\* this.webSessions.put(token, settings) at a site of the settings route,
\* with the continuation of the conversation it resumes.
put(token, settings, site, form) ==
  \E o \in IVars_put(webSessions, token, settings, Len(putlog) + 1) :
    /\ webSessions' = o.reg
    /\ putlog' = Append(putlog, PutEntry(token, settings, site, form))
    /\ getlog' = Resumed(getlog, o.resumed, settings, Len(putlog) + 1)
    /\ wconvs' = ResumeConvs(wconvs, o.resumed, settings)
    /\ users' = ResumeUsers(users, o.resumed, settings)

\* A request for /settings/:token reaches the route handler, which runs to
\* its first await or to the end of the response.  requests holds the
\* handlers that are suspended or have a callback pending, response the
\* last response ended, nreq the number of requests so far.
Methods == {"GET", "POST", "PUT"}
Request(method, token, pc) == [method |-> method, token |-> token, pc |-> pc]
Response(method, token, status, body) ==
  [method |-> method, token |-> token, status |-> status, body |-> body]
Remove(seq, i) == [j \in 1..(Len(seq) - 1) |-> IF j < i THEN seq[j] ELSE seq[j + 1]]

\* A route handler without the token check.
settingsRoute_unchecked(method, token) ==
  /\ nreq < MaxRequests
  /\ nreq' = nreq + 1
  /\ IF method = "GET"
     THEN IF officeClient # NULL
          THEN /\ requests' = Append(requests,
                                     Request(method, token, "authenticate"))
               /\ UNCHANGED response
          ELSE /\ response' = Response(method, token, 200, "settings.html")
               /\ UNCHANGED requests
     ELSE IF method = "POST"
     THEN /\ requests' = Append(requests, Request(method, token, "formdata"))
          /\ UNCHANGED response
     ELSE /\ response' = Response(method, token, 404, "not found")
          /\ UNCHANGED requests
  /\ UNCHANGED <<adapterVars, routerVars, process, officeClient, webSessions, users, wconvs,
                 putlog, getlog>>

settingsRoute(method, token) ==
  /\ nreq < MaxRequests
  /\ nreq' = nreq + 1
  /\ \E valid \in IVars_has(webSessions, token) :
       IF ~valid
       THEN /\ response' = Response(method, token, 404, "invalid token")
            /\ UNCHANGED requests
       ELSE IF method = "GET"
       THEN IF officeClient # NULL
            THEN /\ requests' = Append(requests,
                                       Request(method, token, "authenticate"))
                 /\ UNCHANGED response
            ELSE /\ response' = Response(method, token, 200, "settings.html")
                 /\ UNCHANGED requests
       ELSE IF method = "POST"
       THEN /\ requests' = Append(requests, Request(method, token, "formdata"))
            /\ UNCHANGED response
       ELSE /\ response' = Response(method, token, 404, "not found")
            /\ UNCHANGED requests
  /\ UNCHANGED <<adapterVars, routerVars, process, officeClient, webSessions, users, wconvs,
                 putlog, getlog>>

\* GET: officeClient.authenticate() resolves; the callback on auth.token is
\* attached and the form is rendered.
authenticate(r) ==
  /\ requests[r].pc = "authenticate"
  /\ requests' = [requests EXCEPT ![r].pc = "token"]
  /\ response' = Response("GET", requests[r].token, 200, "settings.html")
  /\ UNCHANGED <<adapterVars, routerVars, process, officeClient, webSessions, users, wconvs,
                 putlog, getlog, nreq>>

\* GET: auth.token resolves with t and the callback puts the Office
\* settings.
authToken(r, t) ==
  /\ requests[r].pc = "token"
  /\ requests' = Remove(requests, r)
  /\ put(requests[r].token, OfficeSettings(t), "office", NoForm)
  /\ UNCHANGED <<adapterVars, routerVars, process, officeClient, response, nreq>>

\* A POST branch that puts the fields of the form whatever its service.
formdata_anyservice(r, data) ==
  /\ requests[r].pc = "formdata"
  /\ requests' = Remove(requests, r)
  /\ put(requests[r].token, CaldavSettings(data), "caldav", data)
  /\ response' = Response("POST", requests[r].token, 200,
                          IF data["service"] = "caldav"
                          THEN "got it; thanks!"
                          ELSE "sorry; I did not understand the form")
  /\ UNCHANGED <<adapterVars, routerVars, process, officeClient, nreq>>

\* POST: libweb.formdata(req) resolves with data.
formdata(r, data) ==
  /\ requests[r].pc = "formdata"
  /\ requests' = Remove(requests, r)
  /\ IF data["service"] = "caldav"
     THEN /\ put(requests[r].token, CaldavSettings(data), "caldav", data)
          /\ response' = Response("POST", requests[r].token, 200,
                                  "got it; thanks!")
     ELSE /\ response' = Response("POST", requests[r].token, 200,
                                  "sorry; I did not understand the form")
          /\ UNCHANGED <<webSessions, users, wconvs, putlog, getlog>>
  /\ UNCHANGED <<adapterVars, routerVars, process, officeClient, nreq>>

NextWeb ==
  \/ register
  \/ addOffice
  \/ \E u \in WebUsers, t \in Texts : interact(u, t)
  \/ \E c \in WebConvIds, res \in WebWitResults : witMessage(c, res)
  \/ \E c \in WebConvIds : getSomeEvents(c)
  \/ \E m \in Methods, t \in 0..MaxWebConvs : settingsRoute(m, t)
  \/ \E r \in RequestIds : authenticate(r)
  \/ \E r \in RequestIds, t \in OfficeTokens : authToken(r, t)
  \/ \E r \in RequestIds, d \in Forms : formdata(r, d)

SpecWeb == Init /\ [][NextWeb]_vars

\* ------------------------------- interact under every result of wit.message
NextWit ==
  \/ register
  \/ \E u \in WebUsers, t \in Texts : interact(u, t)
  \/ \E c \in WebConvIds, res \in WitResults : witMessage(c, res)

SpecWit == Init /\ [][NextWit]_vars

\* -------------------------------------- the registry, driven directly
\* A caller calls get(t); a get that resumes at once has its value.
RegGet(t) ==
  /\ Len(getlog) < MaxGets
  /\ \E o \in IVars_get(webSessions, t, Len(getlog) + 1) :
       /\ webSessions' = o.reg
       /\ IF o.got = {}
          THEN getlog' = Append(getlog, GetEntry(t, 0))
          ELSE \E x \in o.got :
                 getlog' = Append(getlog, [GetEntry(t, 0) EXCEPT
                                             !.value = x.value, !.put = x.put,
                                             !.suspended = FALSE])
  /\ UNCHANGED <<adapterVars, routerVars, process, officeClient, users, wconvs, requests, response,
                 nreq, putlog>>

\* A caller calls put(t, v).
RegPut(t, v) ==
  /\ Len(putlog) < MaxPuts
  /\ \E o \in IVars_put(webSessions, t, v, Len(putlog) + 1) :
       /\ webSessions' = o.reg
       /\ putlog' = Append(putlog, PutEntry(t, v, "caller", NoForm))
       /\ getlog' = Resumed(getlog, o.resumed, v, Len(putlog) + 1)
  /\ UNCHANGED <<adapterVars, routerVars, process, officeClient, users, wconvs, requests, response,
                 nreq>>

RegTokens == 1..MaxWebConvs

NextReg ==
  \/ \E t \in RegTokens : RegGet(t)
  \/ \E t \in RegTokens, v \in SettingsValues : RegPut(t, v)

SpecReg == Init /\ [][NextReg]_vars

\* ------------------------------------ the orchestrator, collaborators failing
\* A promise is rejected and nothing handles the rejection: the closure of
\* register awaits interact inside no try, the adapter drops the promise the
\* closure returns, and main attaches no handler for rejections.  Node
\* before version 15 prints a warning and goes on; from version 15 on the
\* rejection is raised as an uncaught exception, which ends the process.
UnhandledRejection == {"running", "exited"}

\* wit.message rejects: interact throws at its first await.
witFails(c) ==
  /\ wconvs[c].pc = "wit"
  /\ wconvs' = [wconvs EXCEPT ![c].pc = "failed"]
  /\ process' \in UnhandledRejection
  /\ UNCHANGED <<adapterVars, routerVars, officeClient, webSessions, users,
                 requests, response, nreq, putlog, getlog>>

\* getSomeEvents rejects (Calendar.getEvents throws when the response of the
\* server is not ok, or fetch rejects): handle_show_calendar throws.
getSomeEventsFails(c) ==
  /\ wconvs[c].pc = "events"
  /\ wconvs' = [wconvs EXCEPT ![c].pc = "failed"]
  /\ process' \in UnhandledRejection
  /\ UNCHANGED <<adapterVars, routerVars, officeClient, webSessions, users,
                 requests, response, nreq, putlog, getlog>>

\* Every step is a step of the running process.
NextFail ==
  /\ process = "running"
  /\ \/ register
     \/ \E u \in WebUsers, t \in Texts : interact(u, t)
     \/ \E c \in WebConvIds, res \in WebWitResults : witMessage(c, res)
     \/ \E c \in WebConvIds : witFails(c)
     \/ \E c \in WebConvIds : getSomeEvents(c)
     \/ \E c \in WebConvIds : getSomeEventsFails(c)
     \/ \E t \in 0..MaxWebConvs : settingsRoute("POST", t)
     \/ \E r \in RequestIds, d \in Forms : formdata(r, d)

SpecFail == Init /\ [][NextFail]_vars

\* --------------------------------- the Spool and the registry in one process
\* The adapter and the orchestrator share no variable, so their steps
\* commute.  The settings hand-off runs first, with conversations that ask
\* for their calendar and CalDAV forms posted to the tokens issued; the
\* adapter then runs, with a handler that holds a dialogue, from the states
\* in which the hand-off has taken all its conversations and requests.
HandOffQuiet ==
  /\ Len(wconvs) = MaxWebConvs
  /\ nreq = MaxRequests
  /\ requests = <<>>
  /\ \A c \in WebConvIds : wconvs[c].pc # "wit"

NextIso ==
  \/ /\ convHandler = NULL
     /\ \/ register
        \/ \E u \in WebUsers, t \in {"hi"} : interact(u, t)
        \/ \E c \in WebConvIds :
             \E res \in {r \in WebWitResults : r.intent = "show_calendar"} :
               witMessage(c, res)
        \/ \E t \in 1..MaxWebConvs : settingsRoute("POST", t)
        \/ \E r \in RequestIds :
             \E d \in {f \in Forms : f.service = "caldav"} : formdata(r, d)
  \/ /\ HandOffQuiet
     /\ \/ onConverse("dialogue")
        \/ \E u \in Users, t \in {"hi"} : OnMessage(u, t)
        \/ \E c \in ConvIds : recv(c)

SpecIso == Init /\ [][NextIso]_vars

\* ---------------------------------------------------------- the path router
\* Strings are sequences of characters.
LowerCase ==
  <<"a", "b", "c", "d", "e", "f", "g", "h", "i", "j", "k", "l", "m", "n",
    "o", "p", "q", "r", "s", "t", "u", "v", "w", "x", "y", "z">>
UpperCase ==
  <<"A", "B", "C", "D", "E", "F", "G", "H", "I", "J", "K", "L", "M", "N",
    "O", "P", "Q", "R", "S", "T", "U", "V", "W", "X", "Y", "Z">>
Digits == {"0", "1", "2", "3", "4", "5", "6", "7", "8", "9"}
Range(f) == {f[i] : i \in DOMAIN f}

\* \w of a regular expression.
WordChars == Range(LowerCase) \cup Range(UpperCase) \cup Digits \cup {"_"}

\* String.prototype.toUpperCase
UpperOf ==
  [c \in Range(LowerCase) |->
     UpperCase[CHOOSE k \in DOMAIN LowerCase : LowerCase[k] = c]]
toUpperCase(str) ==
  [i \in DOMAIN str |->
     IF str[i] \in DOMAIN UpperOf THEN UpperOf[str[i]] ELSE str[i]]

\* The characters escapeRegExp puts a backslash before.
SpecialChars ==
  {".", "*", "+", "?", "^", "$", "{", "}", "(", ")", "|", "[", "]", "\\"}

\* The source of a regular expression as a sequence of atoms: a character,
\* escaped or not, or the capture group ([^/]*).
Char(c, escaped) == [kind |-> "char", ch |-> c, escaped |-> escaped]
Group == [kind |-> "group", ch |-> "", escaped |-> FALSE]

\* escapeRegExp(s)
escapeRegExp(part) ==
  [i \in DOMAIN part |-> Char(part[i], part[i] \in SpecialChars)]

\* The length of the longest run of characters of set cs in str from i on.
RECURSIVE RunLength(_, _, _)
RunLength(str, i, cs) ==
  IF i <= Len(str) /\ str[i] \in cs THEN 1 + RunLength(str, i + 1, cs) ELSE 0

\* pattern.split(/:(\w[\w\d]*)/): the literal parts and, between them, the
\* captured names.  lit is the literal part read so far.
RECURSIVE SplitFrom(_, _, _)
SplitFrom(pattern, i, lit) ==
  IF i > Len(pattern) THEN <<lit>>
  ELSE IF pattern[i] = ":" /\ RunLength(pattern, i + 1, WordChars) > 0
  THEN LET n == RunLength(pattern, i + 1, WordChars) IN
       <<lit, SubSeq(pattern, i + 1, i + n)>>
         \o SplitFrom(pattern, i + 1 + n, <<>>)
  ELSE SplitFrom(pattern, i + 1, Append(lit, pattern[i]))

Split(pattern) == SplitFrom(pattern, 1, <<>>)

\* The loop of the constructor over the parts from the k-th on: isParam is
\* true for every second part.
RECURSIVE ParamNames(_, _)
ParamNames(parts, k) ==
  IF k > Len(parts) THEN <<>>
  ELSE IF k % 2 = 0 THEN <<parts[k]>> \o ParamNames(parts, k + 1)
  ELSE ParamNames(parts, k + 1)

RECURSIVE PatternRegex(_, _)
PatternRegex(parts, k) ==
  IF k > Len(parts) THEN <<>>
  ELSE IF k % 2 = 0 THEN <<Group>> \o PatternRegex(parts, k + 1)
  ELSE escapeRegExp(parts[k]) \o PatternRegex(parts, k + 1)

\* new Route(method, pattern, handler): the method is kept as given, the
\* pattern in upper case; the names and the regular expression come from
\* the pattern as given.
Route(method, pattern, handler) ==
  [method |-> method,
   pattern |-> toUpperCase(pattern),
   paramNames |-> ParamNames(Split(pattern), 1),
   regex |-> PatternRegex(Split(pattern), 1),
   handler |-> handler]

\* An atom matches a character: an escaped character and a character that
\* is not special match themselves, a bare dot matches any character.
AtomMatches(atom, c) ==
  IF atom.escaped \/ atom.ch \notin SpecialChars THEN atom.ch = c
  ELSE atom.ch = "."

Max(S) == CHOOSE x \in S : \A y \in S : y <= x

\* [^/] over the characters of the paths.
NonSlash == WordChars \cup SpecialChars \cup {":", "-"}

\* new RegExp('^' + patternRegex + '$').exec(url), from atom i and character
\* j on: whether the rest matches and what the groups capture.  A group takes
\* the longest run of characters other than '/' that lets the rest match.
RECURSIVE Exec(_, _, _, _), ExecGroup(_, _, _, _, _)
Exec(regex, i, url, j) ==
  IF i > Len(regex)
  THEN [ok |-> j > Len(url), groups |-> <<>>]
  ELSE IF regex[i].kind = "group"
  THEN ExecGroup(regex, i, url, j, RunLength(url, j, NonSlash))
  ELSE IF j <= Len(url) /\ AtomMatches(regex[i], url[j])
  THEN Exec(regex, i + 1, url, j + 1)
  ELSE [ok |-> FALSE, groups |-> <<>>]

\* The group at atom i takes k characters, or fewer when the rest does not
\* match then.
ExecGroup(regex, i, url, j, k) ==
  LET rest == Exec(regex, i + 1, url, j + k) IN
  IF rest.ok
  THEN [ok |-> TRUE, groups |-> <<SubSeq(url, j, j + k - 1)>> \o rest.groups]
  ELSE IF k = 0 THEN [ok |-> FALSE, groups |-> <<>>]
  ELSE ExecGroup(regex, i, url, j, k - 1)

\* A mapping that counts the capture groups from the last one.
Params_reversed(names, groups) ==
  [name \in Range(names) |->
     groups[Len(groups) + 1 - Max({i \in DOMAIN names : names[i] = name})]]

\* The mapping paramNames.forEach builds from the capture groups.
Params(names, groups) ==
  [name \in Range(names) |->
     groups[Max({i \in DOMAIN names : names[i] = name})]]

NoMatch == [ok |-> FALSE, params |-> <<>>]

\* Route.match(req): null (NoMatch) or the params.
match(route, req) ==
  IF req.method # <<>> /\ toUpperCase(req.method) = route.method
       /\ req.url # <<>>
  THEN LET m == Exec(route.regex, 1, req.url, 1) IN
       IF m.ok THEN [ok |-> TRUE, params |-> Params(route.paramNames, m.groups)]
       ELSE NoMatch
  ELSE NoMatch

\* A not-found handler that ends the response and leaves the status alone.
notFoundHandler_nostatus == [statusCode |-> 200, body |-> "not found"]

\* The response after notFoundHandler.
notFoundHandler == [statusCode |-> 404, body |-> "not found"]

\* The notFound argument of dispatch: the default or the caller's own.
NotFoundHandlers == {"notFoundHandler", "custom"}

\* One invocation: of the handler of route number route ("route"), or of
\* the notFound argument (by its name, with route and handler 0).
Invoked(fn, route, handler, params) ==
  [fn |-> fn, route |-> route, handler |-> handler, params |-> params]

\* A loop that goes on to the next route after a handler has been called.
RECURSIVE HandlerLoop_noreturn(_, _, _, _)
HandlerLoop_noreturn(rs, i, req, notFound) ==
  IF i > Len(rs) THEN <<Invoked(notFound, 0, 0, <<>>)>>
  ELSE LET params == match(rs[i], req) IN
       IF params.ok
       THEN <<Invoked("route", i, rs[i].handler, params.params)>>
              \o HandlerLoop_noreturn(rs, i + 1, req, notFound)
       ELSE HandlerLoop_noreturn(rs, i + 1, req, notFound)

\* The loop of the handler dispatch returns, from route i on: the handlers
\* it invokes, in order.
RECURSIVE HandlerLoop(_, _, _, _)
HandlerLoop(rs, i, req, notFound) ==
  IF i > Len(rs) THEN <<Invoked(notFound, 0, 0, <<>>)>>
  ELSE LET params == match(rs[i], req) IN
       IF params.ok
       THEN <<Invoked("route", i, rs[i].handler, params.params)>>
       ELSE HandlerLoop(rs, i + 1, req, notFound)

\* The methods, templates and paths of the routes and requests.
GET == <<"G", "E", "T">>
get == <<"g", "e", "t">>
POST == <<"P", "O", "S", "T">>
RouteMethods == {GET, get}
RequestMethods == {GET, get, POST}
UsersId == <<"/", "u", "s", "e", "r", "s", "/", ":", "i", "d">>
UsersAdmin == <<"/", "u", "s", "e", "r", "s", "/", "a", "d", "m", "i", "n">>
SettingsToken == <<"/", "s", "e", "t", "t", "i", "n", "g", "s", "/", ":", "t", "o", "k", "e", "n">>
TwoParams == <<"/", ":", "a", "/", ":", "b">>
Dotted == <<"/", "a", ".", "b">>
Patterns == {UsersId, UsersAdmin, SettingsToken, TwoParams, Dotted}
UsersNested == <<"/", "u", "s", "e", "r", "s", "/", "a", "/", "b">>
SettingsAbc123 == <<"/", "s", "e", "t", "t", "i", "n", "g", "s", "/", "a", "b", "c", "1", "2", "3">>
XY == <<"/", "x", "/", "y">>
Axb == <<"/", "a", "x", "b">>
Root == <<"/">>
Paths == {UsersAdmin, UsersNested, SettingsAbc123, XY, Dotted, Axb, Root}
Requests == [method : RequestMethods, url : Paths]

\* routes.push(new Route(method, pattern, handler)), before the server
\* takes requests; the handler of the route is named by its place in the
\* list.
addRoute(method, pattern) ==
  /\ Len(routes) < MaxRoutes
  /\ call = NoCall
  /\ routes' = Append(routes, Route(method, pattern, Len(routes) + 1))
  /\ UNCHANGED <<adapterVars, webVars, call, process>>

\* The handler dispatch(routes, notFound) returns is called with a request.
dispatch(req, notFound) ==
  /\ LET invoked == HandlerLoop(routes, 1, req, notFound) IN
     call' = [req |-> req, notFound |-> notFound, nroutes |-> Len(routes),
              invoked |-> invoked,
              res |-> IF \E i \in DOMAIN invoked :
                           invoked[i].fn = "notFoundHandler"
                      THEN notFoundHandler ELSE NoResponse]
  /\ UNCHANGED <<adapterVars, webVars, routes, process>>

NextRouter ==
  \/ \E m \in RouteMethods, p \in Patterns : addRoute(m, p)
  \/ \E req \in Requests, nf \in NotFoundHandlers : dispatch(req, nf)

SpecRouter == Init /\ [][NextRouter]_vars

\* ------------------------------------------------ properties: the registry
GetsOf(t) == {g \in DOMAIN getlog : getlog[g].token = t}
PutsOf(t) == {p \in DOMAIN putlog : putlog[p].token = t}
SlotTokens ==
  {x.token : x \in webSessions.consumers} \cup {x.token : x \in webSessions.values}
    \cup webSessions.consumed

\* C3: for a token that has had one get and one put, in either order, the
\* get has resumed with the value of that put.
C3_PutGetEitherOrder ==
  \A t \in RegTokens :
    (Cardinality(GetsOf(t)) = 1 /\ Cardinality(PutsOf(t)) = 1) =>
      \A g \in GetsOf(t), p \in PutsOf(t) :
        getlog[g].put = p /\ getlog[g].value = putlog[p].value

C3_Witness ==
  \E t1, t2 \in RegTokens : \E g1 \in GetsOf(t1), g2 \in GetsOf(t2) :
    /\ Cardinality(GetsOf(t1)) = 1 /\ Cardinality(PutsOf(t1)) = 1
    /\ Cardinality(GetsOf(t2)) = 1 /\ Cardinality(PutsOf(t2)) = 1
    /\ getlog[g1].suspended /\ getlog[g1].put # 0
    /\ ~getlog[g2].suspended /\ getlog[g2].put # 0

C5_SlotInvariant ==
  /\ \A t \in SlotTokens :
       /\ Cardinality(IVars_values(webSessions, t)) <= 1
       /\ Cardinality(IVars_consumers(webSessions, t)) <= 1
  /\ \A g, h \in DOMAIN getlog :
       (g # h /\ getlog[g].put # 0) => getlog[g].put # getlog[h].put
  /\ \A x \in webSessions.values : \A g \in DOMAIN getlog :
       getlog[g].put # x.put

C5_Witness ==
  \E g, h \in DOMAIN getlog :
    /\ getlog[g].put # 0
    /\ IVars_values(webSessions, getlog[g].token) # {}
    /\ IVars_consumers(webSessions, getlog[h].token) # {}

\* ------------------------------------------------- properties: the adapter
\* The listener has handled one more event in this step; Ev is its entry.
Fired == Len(evlog') = Len(evlog) + 1
Ev == evlog'[Len(evlog')]
LastEv == evlog[Len(evlog)]
Registered(c) == [key |-> convs[c].user, conv |-> c] \in waiters

\* C1: whenever a waiter is registered for key k and the listener dispatches
\* an event of key k, dispatch reports handled, the waiter leaves the Spool
\* and its wait resumes with exactly the dispatched message.
C1_DispatchResumesWaiter ==
  [][\A x \in waiters :
       (Fired /\ Ev.sender = x.key) =>
         /\ Ev.handled
         /\ x \notin waiters'
         /\ convs'[x.conv].pc = "active"
         /\ convs'[x.conv].got = Ev.message]_vars

C1_Witness ==
  /\ Len(evlog) > 0
  /\ LastEv.handled
  /\ \E c \in LastEv.resumed :
       /\ convs[c].pc = "active"
       /\ convs[c].got = LastEv.message
       /\ convs[c].user = LastEv.sender

\* C2: when no waiter is registered for key k, a dispatch of key k reports
\* unhandled and changes neither the Spool nor any existing conversation;
\* and no recv() ever completes with a message whose dispatch was reported
\* unhandled.
C2_UnhandledLeavesSpool ==
  /\ [][(Fired /\ Spool_waiting(waiters, Ev.sender) = {}) =>
          /\ ~Ev.handled
          /\ waiters' = waiters
          /\ \A c \in DOMAIN convs : convs'[c] = convs[c]]_vars
  /\ [](\A c \in ConvIds : \A i \in DOMAIN convs[c].rets :
          /\ evlog[convs[c].rets[i].at].handled
          /\ c \in evlog[convs[c].rets[i].at].resumed)

C2_Witness ==
  \E c \in ConvIds : \E i \in DOMAIN convs[c].rets : \E j \in DOMAIN evlog :
    /\ ~evlog[j].handled
    /\ evlog[j].sender = convs[c].user
    /\ evlog[j].conv # c
    /\ j <= convs[c].rets[i].since
    /\ evlog[convs[c].rets[i].at].message # evlog[j].message

\* C6: while conversation c is suspended in recv() with its waiter
\* registered, an event from its user resumes c with the text of the
\* message, constructs no Conversation and calls no handler.
C6_ReplyResumesConversation ==
  [][\A c \in ConvIds :
       (convs[c].pc = "recv" /\ Registered(c) /\ Fired
          /\ Ev.sender = convs[c].user) =>
         /\ convs'[c].pc = "active"
         /\ convs'[c].ret = Ev.message.text
         /\ Len(convs') = Len(convs)
         /\ Ev.conv = 0]_vars

C6_Witness ==
  /\ Len(evlog) > 0
  /\ LastEv.conv = 0
  /\ \E c \in ConvIds :
       /\ LastEv.resumed = {c}
       /\ Len(convs[c].rets) > 0
       /\ convs[c].ret = LastEv.message.text
       /\ convs[c].rets[Len(convs[c].rets)].at = Len(evlog)

\* C7: once OpalBot.register(bot) has run, every event that dispatch reports
\* unhandled makes the listener construct a Conversation and call the
\* orchestrator's interact handler with the text of the message.
C7_RegisteredHookInvoked ==
  [][(onconverse # NULL /\ Fired /\ ~Ev.handled) =>
       /\ Len(convs') = Len(convs) + 1
       /\ Ev.conv = Len(convs')
       /\ convs'[Len(convs')].handler = "interact"
       /\ convs'[Len(convs')].user = Ev.sender
       /\ convs'[Len(convs')].text = Ev.message.text]_vars

\* C8 as stated: once the handler of a conversation with user u has
\* returned, no waiter for u is registered in the Spool.
C8_NoWaiterAfterReturn ==
  \A c \in ConvIds :
    convs[c].pc = "done" => Spool_waiting(waiters, convs[c].user) = {}

\* C8, amended: a conversation whose handler has returned has no waiter of
\* its own in the Spool; an event from its user never resumes it: the event
\* is handed to another conversation of that user suspended in recv(), or
\* is reported unhandled and starts a new conversation; and no recv() is
\* completed twice.
C8_FinishedNotResumed ==
  /\ [](\A c \in ConvIds :
          convs[c].pc = "done" => \A x \in waiters : x.conv # c)
  /\ [][\A c \in ConvIds :
          (convs[c].pc = "done" /\ Fired /\ Ev.sender = convs[c].user) =>
            /\ convs'[c] = convs[c]
            /\ c \notin Ev.resumed
            /\ Ev.handled =>
                 \E d \in Ev.resumed :
                   d # c /\ convs[d].pc = "recv" /\ convs[d].user = Ev.sender
            /\ ~Ev.handled =>
                 /\ Len(convs') = Len(convs) + 1
                 /\ Ev.conv = Len(convs')
                 /\ convs'[Len(convs')].user = Ev.sender]_vars
  /\ [](\A c \in ConvIds : \A i, j \in DOMAIN convs[c].rets :
          i # j => convs[c].rets[i].since # convs[c].rets[j].since)

C8_Witness ==
  \E c, d \in ConvIds : \E i \in DOMAIN evlog :
    /\ convs[c].pc = "done"
    /\ i > convs[c].doneAt
    /\ evlog[i].sender = convs[c].user
    /\ ~evlog[i].handled
    /\ evlog[i].conv = d
    /\ d # c

\* C9: every completed recv() of a conversation returned the text of an
\* event of the conversation's key, dispatched after the recv() was called
\* with no other event of that key in between, and successive recv() calls
\* of one conversation completed in the order of dispatch.
C9_RecvOrder ==
  \A c \in ConvIds :
    LET r == convs[c].rets IN
    \A i \in DOMAIN r :
      /\ r[i].at \in DOMAIN evlog
      /\ r[i].since < r[i].at
      /\ evlog[r[i].at].sender = convs[c].user
      /\ evlog[r[i].at].message.text = r[i].text
      /\ \A j \in (r[i].since + 1)..(r[i].at - 1) :
           evlog[j].sender # convs[c].user
      /\ i > 1 => r[i - 1].at <= r[i].since
      /\ i = Len(r) => convs[c].ret = r[i].text

C9_Witness ==
  \E c \in ConvIds :
    /\ Len(convs[c].rets) >= 2
    /\ convs[c].rets[1].text # convs[c].rets[2].text

\* C10: no key has more than one waiter registered in the Spool.
C10_OneWaiterPerKey ==
  \A k \in Users : Cardinality(Spool_waiting(waiters, k)) <= 1

C10_Witness ==
  \E c, d \in ConvIds :
    /\ c # d
    /\ convs[c].user = convs[d].user
    /\ convs[c].pc = "recv"
    /\ convs[d].pc = "recv"
    /\ Cardinality(Spool_waiting(waiters, convs[c].user)) = 1

\* ---------------------------------------------- properties: the orchestrator
\* The registry has taken one more put in this step; Put is its entry.
PutFired == Len(putlog') = Len(putlog) + 1
Put == putlog'[Len(putlog')]

\* C11: a conversation suspended in gatherSettings on token t leaves the
\* suspension in exactly the steps in which a route handler calls put(t, s);
\* it then has the settings s stored for its user and the calendar of s, and
\* has gone on to the calendar step (show_calendar awaits the events,
\* setup_calendar sends its reply); and the settings put by the CalDAV POST
\* carry exactly the url, username and password of the submitted form.
C11_PutResumesSettings ==
  [][\A c \in WebConvIds :
       wconvs[c].pc = "settings" =>
         LET called == PutFired /\ Put.token = wconvs[c].token IN
         /\ (wconvs'[c].pc # "settings") <=> called
         /\ called =>
              /\ users'[wconvs[c].user] = <<Put.value>>
              /\ wconvs'[c].calendar = CalendarOf(Put.value)
              /\ wconvs'[c].calendar # NoCalendar
              /\ wconvs'[c].pc = IF wconvs[c].handler = "show_calendar"
                                 THEN "events" ELSE "done"
              /\ Put.site = "caldav" =>
                   /\ Put.value.service = "caldav"
                   /\ Put.value.caldav = [url |-> Put.form.url,
                                          username |-> Put.form.username,
                                          password |-> Put.form.password]
                   /\ wconvs'[c].calendar.kind = "caldav"
                   /\ wconvs'[c].calendar.username = Put.form.username
                   /\ wconvs'[c].calendar.password = Put.form.password]_vars

C11_Witness ==
  \E c \in WebConvIds : \E g \in DOMAIN getlog :
    /\ getlog[g].conv = c
    /\ getlog[g].suspended
    /\ getlog[g].put # 0
    /\ putlog[getlog[g].put].site = "caldav"
    /\ putlog[getlog[g].put].form.username = "alice"
    /\ wconvs[c].handler = "show_calendar"
    /\ wconvs[c].pc = "events"
    /\ wconvs[c].calendar.username = "alice"
    /\ users[wconvs[c].user] = <<putlog[getlog[g].put].value>>

\* The settings route has taken one more request in this step; its handler
\* has ended the response or is suspended at the end of requests.
ReqFired == nreq' = nreq + 1
ReqSuspended == Len(requests') = Len(requests) + 1
ReqMethod ==
  IF ReqSuspended THEN requests'[Len(requests')].method ELSE response'.method
ReqToken ==
  IF ReqSuspended THEN requests'[Len(requests')].token ELSE response'.token

\* The tokens get has been called with.
Issued == {getlog[g].token : g \in DOMAIN getlog}

\* C12: a request to the settings route whose token was never issued is
\* ended with status 404 and the body 'invalid token', for GET and for POST:
\* the handler does not suspend, and the registry, the conversations, the
\* stored settings and the histories of get and put are unchanged; no
\* handler in flight and no put ever carries a token that was never issued.
C12_InvalidTokenRejected ==
  /\ [][(ReqFired /\ ReqToken \notin Issued) =>
          /\ ~ReqSuspended
          /\ response'.status = 404
          /\ response'.body = "invalid token"
          /\ UNCHANGED <<webSessions, wconvs, users, putlog, getlog,
                         requests>>]_vars
  /\ [](\A r \in RequestIds : requests[r].token \in Issued)
  /\ [](\A p \in DOMAIN putlog : putlog[p].token \in Issued)

C12_Witness ==
  /\ response.method = "POST"
  /\ response.status = 404
  /\ response.body = "invalid token"
  /\ response.token \notin Issued
  /\ officeClient # NULL
  /\ \E c \in WebConvIds : wconvs[c].pc = "settings"
  /\ \E r \in RequestIds : requests[r].method = "GET"

\* The URL gatherSettings sends for a token.
SettingsURL(token) == <<"please fill out the form at", token>>
Sent(cv, m) == \E i \in DOMAIN cv.out : cv.out[i] = m

\* C13: in the step in which a conversation enters getCalendar (from
\* handle_show_calendar without force, from handle_setup_calendar with
\* force), it gathers settings exactly when force is set or the settings
\* stored for its user have no service.  Gathering mints a token no call
\* has used, sends its URL and suspends the conversation as the consumer of
\* the token; otherwise no token is minted, no URL is sent, the registry is
\* unchanged and the conversation goes on with the stored settings.
C13_GatherIffForcedOrUnconfigured ==
  [][\A c \in WebConvIds :
       (wconvs[c].pc = "wit" /\ wconvs'[c].pc # "wit"
          /\ wconvs'[c].handler \in {"show_calendar", "setup_calendar"}) =>
         LET force == wconvs'[c].handler = "setup_calendar"
             stored == getUser(wconvs[c].user)
             gathered == /\ Len(getlog') = Len(getlog) + 1
                         /\ getlog'[Len(getlog')].conv = c
         IN
         /\ gathered <=> (force \/ stored.service = NULL)
         /\ gathered =>
              /\ wconvs'[c].token # 0
              /\ wconvs'[c].token \notin Issued
              /\ getlog'[Len(getlog')].token = wconvs'[c].token
              /\ Sent(wconvs'[c], SettingsURL(wconvs'[c].token))
              /\ wconvs'[c].pc = "settings"
              /\ IVars_consumers(webSessions', wconvs'[c].token) # {}
         /\ ~gathered =>
              /\ wconvs'[c].token = 0
              /\ \A t \in 0..MaxWebConvs : ~Sent(wconvs'[c], SettingsURL(t))
              /\ wconvs'[c].pc # "settings"
              /\ wconvs'[c].calendar = CalendarOf(stored)
              /\ UNCHANGED <<webSessions, getlog>>]_vars

C13_Witness ==
  \E c, d \in WebConvIds :
    /\ d < c
    /\ wconvs[d].handler = "setup_calendar"
    /\ wconvs[d].token # 0
    /\ wconvs[d].pc = "done"
    /\ wconvs[c].handler = "show_calendar"
    /\ wconvs[c].token = 0
    /\ wconvs[c].pc = "events"
    /\ wconvs[c].calendar = CalendarOf(getUser(wconvs[c].user))

\* The handlers interact chooses among by the intent string.
IntentHandlers ==
  {"show_calendar", "schedule_meeting", "setup_calendar", "help"}

\* C14: every conversation whose wit.message has resolved has exactly one
\* handler, fixed by the result: greeting when the greetings entity is
\* present, else bye when the bye entity is, else thanks when the thanks
\* entity is, whatever the intent; with none of the three, the handler named
\* by the intent when it is one of show_calendar, schedule_meeting,
\* setup_calendar and help, and the default handler when the intent is
\* absent or any other string.  What the conversation has sent is what that
\* one handler sends.
C14_HandlerPrecedence ==
  \A c \in WebConvIds :
    LET cv == wconvs[c]
        r == cv.res
    IN
    cv.pc # "wit" =>
      /\ r.greetings => cv.handler = "greeting"
      /\ (~r.greetings /\ r.bye) => cv.handler = "bye"
      /\ (~r.greetings /\ ~r.bye /\ r.thanks) => cv.handler = "thanks"
      /\ (~r.greetings /\ ~r.bye /\ ~r.thanks) =>
           /\ r.intent \in IntentHandlers => cv.handler = r.intent
           /\ r.intent \notin IntentHandlers => cv.handler = "default"
      /\ cv.handler = "greeting" => cv.out = <<(<<"hi!">>)>>
      /\ cv.handler = "bye" => cv.out = <<(<<":wave: I'll be right here">>)>>
      /\ cv.handler = "thanks" => cv.out = <<(<<"nbd yo">>)>>
      /\ cv.handler = "schedule_meeting" =>
           cv.out = <<(<<"let's get to schedulin'! [actually this is not quite implemented yet]">>)>>
      /\ cv.handler = "help" =>
           cv.out = <<(<<"I can schedule a meeting or show your calendar">>)>>
      /\ cv.handler = "default" =>
           cv.out = <<(<<":confused: :grey_question:">>)>>
      /\ cv.handler = "show_calendar" =>
           /\ cv.out[1] = <<"let's get your calendar!">>
           /\ cv.pc = "settings"
      /\ cv.handler = "setup_calendar" =>
           /\ cv.out = <<SettingsURL(cv.token)>>
           /\ cv.pc = "settings"

C14_Witness ==
  \E c, d \in WebConvIds :
    /\ wconvs[c].res.greetings /\ wconvs[c].res.bye
    /\ wconvs[c].res.intent = "show_calendar"
    /\ wconvs[c].handler = "greeting"
    /\ wconvs[c].pc = "done"
    /\ ~wconvs[d].res.greetings /\ ~wconvs[d].res.bye
    /\ ~wconvs[d].res.thanks
    /\ wconvs[d].res.intent = "weather"
    /\ wconvs[d].handler = "default"
    /\ wconvs[d].pc = "done"

\* ------------------------------------------------- properties: the router
\* dispatch has served a request; Matching is the set of routes of the list
\* whose match succeeds for it.
Served == call.notFound # ""
Matching == {i \in DOMAIN routes : match(routes[i], call.req).ok}

\* C15: for every request served, exactly one handler is invoked; when some
\* route of the list matches, it is the handler of the first such route in
\* list order, with the parameters of that route's match, and neither the
\* handler of a later matching route nor notFound is invoked.
C15_FirstMatchWins ==
  Served =>
    /\ Len(call.invoked) = 1
    /\ Matching # {} =>
         LET first == CHOOSE i \in Matching : \A k \in Matching : i <= k
             v == call.invoked[1]
         IN
         /\ v.fn = "route"
         /\ v.route = first
         /\ v.handler = routes[first].handler
         /\ v.params = match(routes[first], call.req).params
         /\ call.res = NoResponse

C15_Witness ==
  /\ Served
  /\ Len(routes) = 2
  /\ routes[1] = Route(GET, UsersId, 1)
  /\ routes[2] = Route(GET, UsersAdmin, 2)
  /\ call.req = [method |-> GET, url |-> UsersAdmin]
  /\ Matching = {1, 2}
  /\ call.invoked = <<Invoked("route", 1, 1, match(routes[1], call.req).params)>>
  /\ call.invoked[1].params[<<"i", "d">>] = <<"a", "d", "m", "i", "n">>

\* C16: for every request served that no route of the list matches, and so
\* for every request against the empty list, the notFound argument is
\* invoked once and nothing else is; when it is the default, the response
\* has status 404 and the body 'not found'.
C16_NoMatchNotFound ==
  (Served /\ Matching = {}) =>
    /\ call.invoked = <<Invoked(call.notFound, 0, 0, <<>>)>>
    /\ call.notFound = "notFoundHandler" =>
         /\ call.res.statusCode = 404
         /\ call.res.body = "not found"

C16_Witness ==
  /\ Served
  /\ routes = <<>>
  /\ call.req = [method |-> POST, url |-> XY]
  /\ call.notFound = "notFoundHandler"
  /\ Len(call.invoked) = 1
  /\ call.invoked[1].fn = "notFoundHandler"
  /\ call.res = [statusCode |-> 404, body |-> "not found"]

\* The path of the request matches the pattern of the route.
PathMatches(route, req) == Exec(route.regex, 1, req.url, 1).ok

\* C17: for every route of the list and every request served whose path
\* matches the pattern of the route, match returns the params exactly when
\* the method of the request equals the method the route was constructed
\* with, ignoring letter case.
C17_MethodIgnoringCase ==
  Served =>
    \A i \in DOMAIN routes :
      PathMatches(routes[i], call.req) =>
        (match(routes[i], call.req).ok
           <=> toUpperCase(call.req.method) = toUpperCase(routes[i].method))

\* The path a template stands for once its i-th placeholder is replaced by
\* the value params binds to the i-th name: from atom i and placeholder g on.
RECURSIVE Fill(_, _, _, _)
Fill(route, params, i, g) ==
  IF i > Len(route.regex) THEN <<>>
  ELSE IF route.regex[i].kind = "group"
  THEN params[route.paramNames[g]] \o Fill(route, params, i + 1, g + 1)
  ELSE <<route.regex[i].ch>> \o Fill(route, params, i + 1, g)

Slashes(str) == Cardinality({i \in DOMAIN str : str[i] = "/"})

\* C18: the params handed to the handler of a matching route bind exactly
\* the placeholder names of its template, each to a value without a slash,
\* the i-th name to the i-th placeholder position: the template with every
\* placeholder replaced by its value is the path of the request.  Template
\* /settings/:token against /settings/abc123 yields {token: "abc123"}.  A
\* path with more or fewer slashes than the template, which a placeholder
\* could only take by holding a slash, matches no route.
C18_ParamsByPosition ==
  Served =>
    /\ \A k \in DOMAIN call.invoked :
         call.invoked[k].fn = "route" =>
           LET route == routes[call.invoked[k].route]
               params == call.invoked[k].params
           IN
           /\ DOMAIN params = Range(route.paramNames)
           /\ \A name \in DOMAIN params : Slashes(params[name]) = 0
           /\ Fill(route, params, 1, 1) = call.req.url
           /\ (route.pattern = toUpperCase(SettingsToken)
                 /\ call.req.url = SettingsAbc123) =>
                params = [name \in {<<"t", "o", "k", "e", "n">>} |->
                            <<"a", "b", "c", "1", "2", "3">>]
    /\ \A i \in DOMAIN routes :
         Slashes(routes[i].pattern) # Slashes(call.req.url) =>
           ~match(routes[i], call.req).ok

C18_Witness ==
  /\ Served
  /\ Len(routes) = 2
  /\ routes[1] = Route(GET, UsersId, 1)
  /\ routes[2] = Route(GET, TwoParams, 2)
  /\ call.req = [method |-> get, url |-> XY]
  /\ Len(call.invoked) = 1
  /\ call.invoked[1].route = 2
  /\ call.invoked[1].params[<<"a">>] = <<"x">>
  /\ call.invoked[1].params[<<"b">>] = <<"y">>

\* ------------------------------------- properties: collaborators failing
\* C19: after a collaborator call of a conversation has failed, the process
\* is still running, so that later events and requests are taken; at worst
\* the conversation has no reply.
C19_FailureDoesNotStopTheBot ==
  (\E c \in WebConvIds : wconvs[c].pc = "failed") => process = "running"

\* ------------------------------------------ properties: the adapter, races
\* The handler of conversation c runs and has not called recv().
BeforeFirstRecv(c) ==
  convs[c].pc = "active" /\ convs[c].since = 0 /\ convs[c].rets = <<>>

\* C20 as stated: an event from the user of a conversation whose handler has
\* not yet called recv() is reported unhandled and starts a second
\* conversation with that user.
C20_RaceSpawnsDuplicate ==
  [][\A c \in ConvIds :
       (BeforeFirstRecv(c) /\ Fired /\ Ev.sender = convs[c].user) =>
         /\ ~Ev.handled
         /\ Ev.conv = Len(convs) + 1
         /\ Len(convs') = Len(convs) + 1]_vars

\* C20, amended: such an event is never delivered to the conversation that
\* has not yet called recv(), which is left as it is.  When no waiter is
\* registered for the user, the event is reported unhandled and starts a
\* second conversation with the same user and the text of the event; when
\* another conversation with that user is suspended in recv(), the event is
\* handed to that one and no conversation is started.
C20_RaceNeverReachesFirst ==
  [][\A c \in ConvIds :
       (BeforeFirstRecv(c) /\ Fired /\ Ev.sender = convs[c].user) =>
         /\ convs'[c] = convs[c]
         /\ c \notin Ev.resumed
         /\ Spool_waiting(waiters, convs[c].user) = {} =>
              /\ ~Ev.handled
              /\ Ev.conv = Len(convs) + 1
              /\ Len(convs') = Len(convs) + 1
              /\ convs'[Len(convs')].user = convs[c].user
              /\ convs'[Len(convs')].text = Ev.message.text
              /\ convs'[Len(convs')].pc = "active"
         /\ Spool_waiting(waiters, convs[c].user) # {} =>
              /\ Ev.handled
              /\ Ev.conv = 0
              /\ Len(convs') = Len(convs)
              /\ \E d \in Ev.resumed :
                   d # c /\ convs[d].pc = "recv" /\ convs[d].user = Ev.sender]_vars

C20_Witness ==
  \E c, d \in ConvIds : \E i, j \in DOMAIN evlog :
    /\ c < d /\ i < j
    /\ convs[c].user = convs[d].user
    /\ evlog[i].conv = c /\ ~evlog[i].handled
    /\ evlog[j].conv = d /\ ~evlog[j].handled
    /\ evlog[j].sender = convs[c].user
    /\ BeforeFirstRecv(c)
    /\ convs[c].handler = "dialogue"

\* --------------------------------------------- properties: key isolation
\* C21: an event dispatched for one key leaves every waiter registered for
\* another key in the Spool, with its conversation as it was, and a put on
\* one token leaves every consumer suspended on another token registered,
\* with its get and its conversation as they were, and the values stored
\* under other tokens in place.  A conversation suspended in recv() changes
\* only in a step that dispatches an event of its user, and a conversation
\* suspended in gatherSettings only in a step that puts on its token.
C21_KeyIsolation ==
  [][/\ \A x \in waiters :
          (Fired /\ Ev.sender # x.key) =>
            /\ x \in waiters'
            /\ x.conv \notin Ev.resumed
            /\ convs'[x.conv] = convs[x.conv]
     /\ \A c \in ConvIds :
          (convs[c].pc = "recv" /\ convs'[c] # convs[c]) =>
            Fired /\ Ev.sender = convs[c].user
     /\ \A x \in webSessions.consumers :
          (PutFired /\ Put.token # x.token) =>
            /\ x \in webSessions'.consumers
            /\ getlog'[x.get] = getlog[x.get]
            /\ wconvs'[getlog[x.get].conv] = wconvs[getlog[x.get].conv]
     /\ \A t \in SlotTokens :
          (PutFired /\ Put.token # t) =>
            IVars_values(webSessions', t) = IVars_values(webSessions, t)
     /\ \A c \in WebConvIds :
          (wconvs[c].pc = "settings" /\ wconvs'[c] # wconvs[c]) =>
            PutFired /\ Put.token = wconvs[c].token]_vars

C21_Witness ==
  /\ \E c \in ConvIds :
       /\ convs[c].pc = "recv"
       /\ Registered(c)
       /\ convs[c].since < Len(evlog)
       /\ \E i \in (convs[c].since + 1)..Len(evlog) :
            evlog[i].sender # convs[c].user /\ evlog[i].handled
  /\ \E g, h \in DOMAIN getlog :
       /\ g < h
       /\ getlog[g].put = 0
       /\ wconvs[getlog[g].conv].pc = "settings"
       /\ IVars_consumers(webSessions, getlog[g].token) # {}
       /\ getlog[h].put # 0
       /\ getlog[h].suspended
       /\ putlog[getlog[h].put].token # getlog[g].token
       /\ wconvs[getlog[h].conv].pc = "events"

\* ------------------------------------- properties: issued tokens are valid
\* The tokens of the conversations suspended in gatherSettings.
Pending == {wconvs[c].token : c \in {d \in WebConvIds : wconvs[d].pc = "settings"}}

\* C22: the step in which a conversation is sent the settings URL of a
\* token is the step that registers its get as the consumer of the token;
\* while the conversation is suspended in gatherSettings its URL has been
\* sent, the token has its consumer and has(token) answers true; and a
\* request to the settings route for the token of a suspended conversation
\* is never ended with 'invalid token'.
C22_PendingTokenValid ==
  /\ [][\A c \in WebConvIds, t \in 1..MaxWebConvs :
          (Sent(wconvs'[c], SettingsURL(t)) /\ ~Sent(wconvs[c], SettingsURL(t))) =>
            /\ wconvs'[c].pc = "settings"
            /\ wconvs'[c].token = t
            /\ \E x \in IVars_consumers(webSessions', t) :
                 getlog'[x.get].conv = c]_vars
  /\ [](\A c \in WebConvIds :
          wconvs[c].pc = "settings" =>
            /\ Sent(wconvs[c], SettingsURL(wconvs[c].token))
            /\ IVars_consumers(webSessions, wconvs[c].token) # {}
            /\ IVars_has(webSessions, wconvs[c].token) = {TRUE})
  /\ [][(ReqFired /\ ReqToken \in Pending) =>
          \/ ReqSuspended
          \/ response'.body # "invalid token"]_vars

C22_Witness ==
  \E c \in WebConvIds, r \in RequestIds :
    /\ wconvs[c].pc = "settings"
    /\ requests[r].token = wconvs[c].token
    /\ requests[r].method = "POST"
    /\ response.token = wconvs[c].token
    /\ response.method = "GET"
    /\ response.body = "settings.html"

\* ------------------------------------ properties: a form of another service
\* The POST handler suspended at position r resumes from formdata in this
\* step and ends its response.
FormdataFired(r) ==
  /\ r \in RequestIds
  /\ requests[r].pc = "formdata"
  /\ requests' = Remove(requests, r)
  /\ response'.method = "POST"
  /\ response'.token = requests[r].token

\* C23: a POST handler that resumes from formdata calls put exactly when it
\* answers 'got it; thanks!', and every put of the POST branch carries a
\* form whose service is caldav.  When it answers that it did not
\* understand the form, the registry, the conversations, the stored
\* settings and the histories of get and put are unchanged, so a
\* conversation suspended on the token stays suspended with its consumer
\* registered; when it answers 'got it; thanks!', the conversation
\* suspended on the token is resumed, whatever was answered before.
C23_UnsupportedFormNoPut ==
  /\ [][\A r \in RequestIds :
          FormdataFired(r) =>
            /\ response'.body \in {"got it; thanks!",
                                   "sorry; I did not understand the form"}
            /\ PutFired <=> response'.body = "got it; thanks!"
            /\ response'.body = "sorry; I did not understand the form" =>
                 UNCHANGED <<webSessions, wconvs, users, putlog, getlog>>
            /\ response'.body = "got it; thanks!" =>
                 /\ Put.token = requests[r].token
                 /\ \A c \in WebConvIds :
                      (wconvs[c].pc = "settings"
                         /\ wconvs[c].token = requests[r].token) =>
                        wconvs'[c].pc # "settings"]_vars
  /\ [](\A p \in DOMAIN putlog :
          putlog[p].site = "caldav" => putlog[p].form.service = "caldav")

C23_Witness ==
  \E g \in DOMAIN getlog :
    /\ getlog[g].suspended
    /\ getlog[g].put # 0
    /\ putlog[getlog[g].put].site = "caldav"
    /\ putlog[getlog[g].put].token = getlog[g].token
    /\ putlog[getlog[g].put].after = "sorry; I did not understand the form"
    /\ wconvs[getlog[g].conv].pc = "events"
    /\ response.body = "got it; thanks!"

====
